---- MODULE Spec2Model ----
(***************************************************************************)
(* Model of src/utilities/eggLogic.py (OnlineRogue egg generator):         *)
(* getIDBoundarys, generateRandomID, __getRandomSpeciesForShiny and        *)
(* constructEggs.                                                          *)
(*                                                                         *)
(* Python integers are unbounded while the identifiers of tier t live in   *)
(* [t * 2^30, (t+1) * 2^30 - 1].  An integer n is therefore kept as the    *)
(* two-digit base-EGG_SEED numeral [hi, lo] with n = hi * EGG_SEED + lo    *)
(* and 0 <= lo < EGG_SEED; every arithmetic step of the source is carried  *)
(* out exactly on that numeral.                                            *)
(***************************************************************************)
EXTENDS Integers, Sequences, FiniteSets, TLC

VARIABLES pc, args, eggs, clock, tape, run, first, fn, ret

vars == <<pc, args, eggs, clock, tape, run, first, fn, ret>>

(***************************************************************************)
(* Program constants                                                       *)
(***************************************************************************)
EGG_SEED == 1073741824

ID_FLOOR == 255

MANAPHY_MOD == 204

SHINY_RATE == 64

MANAPHY_TIER == 4

REGIONAL_TIER == 6

PARADOX_TIER == 7

\* Python's None
None == [none |-> TRUE]

\* Outcome of a call: not yet made, returned a value, or raised
Pending == [status |-> "pending"]

Returned(v) == [status |-> "returned", value |-> v]

Raised(e) == [status |-> "raised", exception |-> e]

(***************************************************************************)
(* Bounds of the model                                                     *)
(***************************************************************************)
MaxEggs == 2

MaxClock == 1

DrawSpan == 0

(***************************************************************************)
(* Unbounded integers as base-EGG_SEED numerals                            *)
(***************************************************************************)
Big(h, l) == [hi |-> h + (l \div EGG_SEED), lo |-> l % EGG_SEED]

BigAdd(a, n) == Big(a.hi, a.lo + n)

BigLt(a, b) == a.hi < b.hi \/ (a.hi = b.hi /\ a.lo < b.lo)

BigLeq(a, b) == a = b \/ BigLt(a, b)

BigMax(a, b) == IF BigLt(a, b) THEN b ELSE a

\* a % n for 0 < n, n * n within the machine range
BigMod(a, n) == (((a.hi % n) * (EGG_SEED % n)) + (a.lo % n)) % n

\* a // n * n
AlignDown(a, n) == BigAdd(a, 0 - BigMod(a, n))

TimesSeed(t) == Big(t, 0)

(***************************************************************************)
(* getIDBoundarys                                                          *)
(***************************************************************************)
getIDBoundarys(tier) ==
    LET start == TimesSeed(tier)
        end   == BigAdd(TimesSeed(tier + 1), -1)
    IN  <<BigMax(start, Big(0, ID_FLOOR)), end>>

(***************************************************************************)
(* The random source.  random.randint(a, b) and random.randrange(a, b, s)  *)
(* may return any member of their range; the ranges hold up to 2^30        *)
(* members, so the draws explored are the first DrawSpan + 1 members of    *)
(* the range, its last member and, for randint, the first and the last     *)
(* multiple of MANAPHY_MOD in it.  An empty range makes the call raise     *)
(* ValueError.                                                             *)
(***************************************************************************)
RandintDraws(a, b) ==
    LET cand == { BigAdd(a, k) : k \in 0..DrawSpan }
                \cup { b, BigAdd(AlignDown(a, MANAPHY_MOD), MANAPHY_MOD),
                       AlignDown(b, MANAPHY_MOD) }
    IN  { x \in cand : BigLeq(a, x) /\ BigLeq(x, b) }

RandrangeDraws(a, b, step) ==
    LET top  == BigAdd(b, -1)
        last == BigAdd(top, 0 - ((BigMod(top, step) - BigMod(a, step)) % step))
        cand == { BigAdd(a, k * step) : k \in 0..DrawSpan }
                \cup { last }
    IN  { x \in cand : BigLeq(a, x) /\ BigLt(x, b) }

(***************************************************************************)
(* generateRandomID: IDDraws is the range handed to the random source,     *)
(* generateRandomID the value returned for the draw r.                     *)
(***************************************************************************)
\* Faulty variant: the reserved range is sampled from start without aligning
IDDrawsUnaligned(start, end, manaphy) ==
    IF manaphy
    THEN RandrangeDraws(start, BigAdd(end, 1), MANAPHY_MOD)
    ELSE RandintDraws(start, end)

IDDraws(start, end, manaphy) ==
    IF manaphy
    THEN RandrangeDraws(AlignDown(start, MANAPHY_MOD),
                        BigAdd(AlignDown(end, MANAPHY_MOD), MANAPHY_MOD),
                        MANAPHY_MOD)
    ELSE RandintDraws(start, end)

\* Faulty variant: the multiple of MANAPHY_MOD is returned as drawn
generateRandomIDKeepsMultiple(start, end, manaphy, r) ==
    IF manaphy THEN r ELSE BigMax(r, Big(0, 1))

\* Faulty variant: the collision is broken by stepping back a whole modulus
generateRandomIDStepsModulus(start, end, manaphy, r) ==
    IF manaphy
    THEN r
    ELSE LET result == IF BigMod(r, MANAPHY_MOD) = 0 THEN BigAdd(r, 0 - MANAPHY_MOD) ELSE r
         IN  BigMax(result, Big(0, 1))

generateRandomID(start, end, manaphy, r) ==
    IF manaphy
    THEN r
    ELSE LET result == IF BigMod(r, MANAPHY_MOD) = 0 THEN BigAdd(r, -1) ELSE r
         IN  BigMax(result, Big(0, 1))

(***************************************************************************)
(* Specification SpecGen: generateRandomID applied to bounded inputs       *)
(***************************************************************************)
GenValues == {0, 1, 2, 203, 204, 205, 255, 407, 408, 409}

GenTiers == {0, 1, 3, 4, 5, 6}

GenInputs ==
    { [start |-> Big(0, s), end |-> Big(0, e), manaphy |-> m] :
        s \in GenValues, e \in GenValues, m \in BOOLEAN }
    \cup { [start |-> getIDBoundarys(t)[1], end |-> getIDBoundarys(t)[2], manaphy |-> m] :
        t \in GenTiers, m \in BOOLEAN }

Idle ==
    /\ args = None
    /\ eggs = <<>>
    /\ clock = 0
    /\ tape = <<>>
    /\ run = 0
    /\ first = Pending

InitGen ==
    /\ pc = "generateRandomID"
    /\ Idle
    /\ fn \in GenInputs
    /\ ret = Pending

ApplyGenerateRandomID ==
    /\ pc = "generateRandomID"
    /\ ret.status = "pending"
    /\ LET draws == IDDraws(fn.start, fn.end, fn.manaphy)
       IN  ret' \in IF draws = {}
                    THEN {Raised("ValueError")}
                    ELSE { [draw |-> r] @@ Returned(generateRandomID(fn.start, fn.end, fn.manaphy, r)) :
                             r \in draws }
    /\ UNCHANGED <<pc, args, eggs, clock, tape, run, first, fn>>

NextGen == ApplyGenerateRandomID

SpecGen == InitGen /\ [][NextGen]_vars

(***************************************************************************)
(* Strings are sequences of one-character strings, so that str.lower(),    *)
(* the substring test and int() are computed rather than assumed.          *)
(***************************************************************************)
UpperCase == <<"A", "B", "C", "D", "E", "F", "G", "H", "I", "J", "K", "L", "M", "N", "O", "P", "Q", "R", "S", "T", "U", "V", "W", "X", "Y", "Z">>

LowerCase == <<"a", "b", "c", "d", "e", "f", "g", "h", "i", "j", "k", "l", "m", "n", "o", "p", "q", "r", "s", "t", "u", "v", "w", "x", "y", "z">>

Digits == <<"0", "1", "2", "3", "4", "5", "6", "7", "8", "9">>

LowerChar(c) ==
    IF \E i \in DOMAIN UpperCase : UpperCase[i] = c
    THEN LowerCase[CHOOSE i \in DOMAIN UpperCase : UpperCase[i] = c]
    ELSE c

\* str.lower()
Lower(str) == [i \in DOMAIN str |-> LowerChar(str[i])]

\* substring in str
Contains(str, substring) ==
    \E i \in 1..(Len(str) - Len(substring) + 1) :
        SubSeq(str, i, i + Len(substring) - 1) = substring

DigitValue(c) == (CHOOSE i \in DOMAIN Digits : Digits[i] = c) - 1

\* int(str) of a decimal numeral
RECURSIVE ParseInt(_)
ParseInt(str) ==
    IF Len(str) = 0
    THEN 0
    ELSE 10 * ParseInt(SubSeq(str, 1, Len(str) - 1)) + DigitValue(str[Len(str)])

(***************************************************************************)
(* __getRandomSpeciesForShiny                                              *)
(***************************************************************************)
RegionalFragments ==
    { <<"a", "l", "o", "l", "a", "_">>,
      <<"g", "a", "l", "a", "r", "_">>,
      <<"h", "i", "s", "u", "i", "_">>,
      <<"p", "a", "l", "d", "e", "a", "_">> }

paradoxIDs ==
    {984, 985, 986, 987, 988, 989, 990, 991, 992, 993, 994, 995,
     1005, 1006, 1009, 1010, 1020, 1021, 1022, 1023}

\* Faulty variant: the name is compared without str.lower()
IsSpeciesMatchCaseSensitive(tier, member) ==
    /\ member.isEgg # None
    /\ IF tier = REGIONAL_TIER
       THEN \E substring \in RegionalFragments : Contains(member.name, substring)
       ELSE IF tier = PARADOX_TIER
            THEN ParseInt(member.key) \in paradoxIDs
            ELSE member.isEgg.eggType = tier

\* The test the loop applies to one catalog member
IsSpeciesMatch(tier, member) ==
    /\ member.isEgg # None
    /\ IF tier = REGIONAL_TIER
       THEN \E substring \in RegionalFragments : Contains(Lower(member.name), substring)
       ELSE IF tier = PARADOX_TIER
            THEN ParseInt(member.key) \in paradoxIDs
            ELSE member.isEgg.eggType = tier

speciesMatch(tier, eggTypesData) ==
    SelectSeq(eggTypesData, LAMBDA member : IsSpeciesMatch(tier, member))

\* random.choice draws an index into speciesMatch
ChoiceDraws(tier, eggTypesData) == 1..Len(speciesMatch(tier, eggTypesData))

\* The value returned when random.choice draws index pick
getRandomSpeciesForShiny(tier, eggTypesData, pick) ==
    LET matches == speciesMatch(tier, eggTypesData)
    IN  IF Len(matches) = 0
        THEN None
        ELSE [name |-> matches[pick].key, eggType |-> matches[pick].isEgg.eggType]

(***************************************************************************)
(* Species catalogs (the eggTypesData argument)                            *)
(***************************************************************************)
Species(key, name, isEgg) == [key |-> key, name |-> name, isEgg |-> isEgg]

EggType(t) == [eggType |-> t]

Pool ==
    << Species(<<"1", "9">>, <<"r", "a", "t">>, EggType(1)),
       Species(<<"2", "0">>, <<"A", "l", "o", "l", "a", "_", "r", "a", "t">>, EggType(1)),
       Species(<<"9", "8", "4">>, <<"t", "u", "s", "k">>, EggType(4)),
       Species(<<"9", "8", "5">>, <<"t", "a", "i", "l">>, None),
       Species(<<"7", "7">>, <<"G", "A", "L", "A", "R", "_", "p", "o", "n", "y">>, None),
       Species(<<"1", "5", "0">>, <<"m", "e", "w">>, EggType(4)),
       Species(<<"7">>, <<"o", "d", "d">>, EggType(7)) >>

\* The sub-catalog of Pool holding the members at the positions in keep
SubCatalog(keep) ==
    LET F[n \in 0..Len(Pool)] ==
            IF n = 0 THEN <<>>
            ELSE IF n \in keep THEN Append(F[n - 1], Pool[n]) ELSE F[n - 1]
    IN  F[Len(Pool)]

(***************************************************************************)
(* Specification SpecMatch: the matcher applied to every sub-catalog of    *)
(* Pool and every tier argument of MatchTiers                              *)
(***************************************************************************)
MatchTiers == 0..8

InitMatch ==
    /\ pc = "getRandomSpeciesForShiny"
    /\ Idle
    /\ fn \in { [tier |-> t, eggTypesData |-> SubCatalog(keep)] :
                  t \in MatchTiers, keep \in SUBSET (1..Len(Pool)) }
    /\ ret = Pending

ApplyGetRandomSpeciesForShiny ==
    /\ pc = "getRandomSpeciesForShiny"
    /\ ret.status = "pending"
    /\ LET draws == ChoiceDraws(fn.tier, fn.eggTypesData)
       IN  ret' \in IF draws = {}
                    THEN {Returned(getRandomSpeciesForShiny(fn.tier, fn.eggTypesData, 0))}
                    ELSE { Returned(getRandomSpeciesForShiny(fn.tier, fn.eggTypesData, pick)) :
                             pick \in draws }
    /\ UNCHANGED <<pc, args, eggs, clock, tape, run, first, fn>>

NextMatch == ApplyGetRandomSpeciesForShiny

SpecMatch == InitMatch /\ [][NextMatch]_vars

(***************************************************************************)
(* constructEggs.  tier, gachaType, hatchWaveCount and variantTier are     *)
(* integers, on which int() returns its argument; the species key is a     *)
(* decimal string, which int() parses (ParseInt).                          *)
(***************************************************************************)
isManaphy(tier) == tier = MANAPHY_TIER

\* start, end = getIDBoundarys(0 if isManaphy else tier)
IDRange(tier) == getIDBoundarys(IF isManaphy(tier) THEN 0 ELSE tier)

\* Faulty variant: the clock reading leaks into the identifier
EggBaseClockInId(eggID, gachaType, hatchWaveCount, timestamp) ==
    [id |-> BigAdd(eggID, timestamp), gachaType |-> gachaType,
     hatchWaves |-> hatchWaveCount, timestamp |-> timestamp]

\* The dictionary literal every record starts from
EggBase(eggID, gachaType, hatchWaveCount, timestamp) ==
    [id |-> eggID, gachaType |-> gachaType, hatchWaves |-> hatchWaveCount,
     timestamp |-> timestamp]

\* if isShiny or shinyRoll == 1
RollsShiny(isShiny, shinyRoll) == isShiny \/ shinyRoll = 1

\* Faulty variant: the requested variant tier is stored undecremented
ShinyVariantTierAsGiven(isShiny, variantTier) == IF isShiny THEN variantTier ELSE 0

ShinyVariantTier(isShiny, variantTier) == IF isShiny THEN variantTier - 1 ELSE 0

ShinySourceType(gachaType) == 1

\* The fields the shiny branch sets before it calls the matcher
ShinyFields(isShiny, variantTier, gachaType) ==
    [isShiny |-> TRUE, variantTier |-> ShinyVariantTier(isShiny, variantTier),
     sourceType |-> ShinySourceType(gachaType)]

\* Faulty variant: the egg type is stored without re-projecting it
SpeciesFieldsOneIndexed(speciesID, speciesEggType) ==
    [species |-> ParseInt(speciesID), tier |-> speciesEggType]

\* The fields the shiny branch sets from the matcher's pair
SpeciesFields(speciesID, speciesEggType) ==
    [species |-> ParseInt(speciesID), tier |-> speciesEggType - 1]

\* speciesID, speciesEggType = <found>: unpacking None raises TypeError
Unpack(found) ==
    IF found = None THEN Raised("TypeError") ELSE Returned(found)

\* Faulty variant: the else branch stores the shiny branch's source type
PlainFieldsShinySource(tier, gachaType) ==
    [isShiny |-> FALSE, variantTier |-> 0, sourceType |-> 1, tier |-> tier]

\* The else branch
PlainFields(tier, gachaType) ==
    [isShiny |-> FALSE, variantTier |-> 0, sourceType |-> gachaType, tier |-> tier]

\* One iteration of the loop, for the draws d and the clock reading timestamp
constructEgg(a, d, timestamp) ==
    LET range == IDRange(a.tier)
        eggID == generateRandomID(range[1], range[2], isManaphy(a.tier), d.id)
        egg   == EggBase(eggID, a.gachaType, a.hatchWaveCount, timestamp)
    IN  IF RollsShiny(a.isShiny, d.shinyRoll)
        THEN LET shiny == egg @@ ShinyFields(a.isShiny, a.variantTier, a.gachaType)
                 pair  == Unpack(getRandomSpeciesForShiny(a.tier + 1, a.eggTypesData, d.pick))
             IN  IF pair.status = "raised"
                 THEN pair
                 ELSE Returned(shiny @@ SpeciesFields(pair.value.name, pair.value.eggType))
        ELSE Returned(egg @@ PlainFields(a.tier, a.gachaType))

\* random.randint(1, 64): 1 and a value that is not 1
ShinyRollDraws == {1, SHINY_RATE}

\* The indexes random.choice may pick in an iteration whose shiny roll is
\* shinyRoll (0: the record is not shiny or no candidate was found, and
\* random.choice is not called)
PickDraws(a, shinyRoll) ==
    LET picks == IF RollsShiny(a.isShiny, shinyRoll)
                 THEN ChoiceDraws(a.tier + 1, a.eggTypesData)
                 ELSE {}
    IN  IF picks = {} THEN {0} ELSE picks

\* Every triple of draws one iteration can make: the identifier, the shiny
\* roll and the index random.choice picks
EggDraws(a) ==
    LET range == IDRange(a.tier)
        ids   == IDDraws(range[1], range[2], isManaphy(a.tier))
    IN  UNION { { [id |-> r, shinyRoll |-> s, pick |-> p] : r \in ids, p \in PickDraws(a, s) } :
                  s \in ShinyRollDraws }

\* A seeded random source repeats its draws: the first call records them on
\* the tape, a call made after reseeding reads them back
Draws(a, n) == IF n <= Len(tape) THEN {tape[n]} ELSE EggDraws(a)

\* time.time() read in milliseconds
ClockReadings == clock..(IF clock < MaxClock THEN clock + 1 ELSE clock)

Tiers == {0, 1, 3, 4, 5, 6}

GachaTypes == {0, 1}

HatchWaveCounts == {10}

VariantTiers == {0, 3}

Catalogs == {<<>>, Pool}

Init ==
    /\ pc = "loop"
    /\ args \in [tier : Tiers, gachaType : GachaTypes, hatchWaveCount : HatchWaveCounts,
                 eggAmount : 0..MaxEggs, eggTypesData : Catalogs,
                 isShiny : BOOLEAN, variantTier : VariantTiers]
    /\ eggs = <<>>
    /\ clock = 0
    /\ tape = <<>>
    /\ run = 1
    /\ first = Pending
    /\ fn = None
    /\ ret = Pending

\* for _ in range(eggAmount): one iteration
ConstructEgg ==
    /\ pc = "loop"
    /\ Len(eggs) < args.eggAmount
    /\ \E d \in Draws(args, Len(eggs) + 1), timestamp \in ClockReadings :
         LET out == constructEgg(args, d, timestamp)
         IN  /\ clock' = timestamp
             /\ tape' = IF Len(eggs) + 1 <= Len(tape) THEN tape ELSE Append(tape, d)
             /\ IF out.status = "returned"
                THEN /\ eggs' = Append(eggs, out.value)
                     /\ pc' = "loop"
                     /\ ret' = ret
                ELSE /\ eggs' = eggs
                     /\ pc' = "raised"
                     /\ ret' = out
    /\ UNCHANGED <<args, run, first, fn>>

\* return eggs
ReturnEggs ==
    /\ pc = "loop"
    /\ Len(eggs) >= args.eggAmount
    /\ pc' = "done"
    /\ ret' = Returned(eggs)
    /\ UNCHANGED <<args, eggs, clock, tape, run, first, fn>>

Next == ConstructEgg \/ ReturnEggs

Spec == Init /\ [][Next]_vars

(***************************************************************************)
(* Specification SpecSeeded: after the call ends the caller reseeds the    *)
(* random source and calls constructEggs again with the same arguments, at *)
(* the same or a later clock time                                          *)
(***************************************************************************)
InitSeeded ==
    /\ Init
    /\ args.gachaType = 0
    /\ args.variantTier = 3
    /\ args.eggTypesData = Pool
    /\ args.tier \in {0, 1, 4, 5}

CallAgain ==
    /\ pc \in {"done", "raised"}
    /\ run = 1
    /\ run' = 2
    /\ first' = ret
    /\ ret' = Pending
    /\ eggs' = <<>>
    /\ pc' = "loop"
    /\ clock' \in ClockReadings
    /\ UNCHANGED <<args, tape, fn>>

NextSeeded == ConstructEgg \/ ReturnEggs \/ CallAgain

SpecSeeded == InitSeeded /\ [][NextSeeded]_vars

(***************************************************************************)
(* Properties                                                              *)
(***************************************************************************)
Zero == Big(0, 0)

One == Big(0, 1)

IsMultipleOfModulus(n) == BigMod(n, MANAPHY_MOD) = 0

\* n rounded up to a multiple of MANAPHY_MOD
AlignUp(n) == IF IsMultipleOfModulus(n) THEN n ELSE BigAdd(AlignDown(n, MANAPHY_MOD), MANAPHY_MOD)

GenReturned(manaphy) ==
    /\ pc = "generateRandomID"
    /\ ret.status = "returned"
    /\ fn.manaphy = manaphy

\* C6: every normal-mode draw of generateRandomID with start <= end returns
\* a value that is not a nonzero multiple of 204 and is not less than 1.
C6_NormalIdNotReserved ==
    (GenReturned(FALSE) /\ BigLeq(fn.start, fn.end))
        => /\ ~(IsMultipleOfModulus(ret.value) /\ ret.value # Zero)
           /\ BigLeq(One, ret.value)

\* C6 witness: 408, a nonzero multiple of 204, was drawn from [205, 409] and
\* 407 was returned.
C6_Witness ==
    /\ GenReturned(FALSE)
    /\ fn.start = Big(0, 205)
    /\ fn.end = Big(0, 409)
    /\ ret.draw = Big(0, 408)
    /\ ret.value = Big(0, 407)

\* C7: every reserved-family draw of generateRandomID with 0 <= start <= end
\* returns an exact multiple of 204 lying between start rounded down and end
\* rounded up to a multiple of 204.
C7_ReservedIdAligned ==
    (GenReturned(TRUE) /\ BigLeq(Zero, fn.start) /\ BigLeq(fn.start, fn.end))
        => /\ IsMultipleOfModulus(ret.value)
           /\ BigLeq(AlignDown(fn.start, MANAPHY_MOD), ret.value)
           /\ BigLeq(ret.value, AlignUp(fn.end))

\* C7 witness: a reserved-family draw over the tier-0 range [255, 2^30 - 1]
\* returned its last multiple of 204, 1073741760.
C7_Witness ==
    /\ GenReturned(TRUE)
    /\ fn.start = Big(0, ID_FLOOR)
    /\ fn.end = Big(0, EGG_SEED - 1)
    /\ ret.value = Big(0, 1073741760)

\* C10: every normal-mode draw of generateRandomID with 1 <= start <= end and
\* start not a multiple of 204 returns a value within [start, end].
C10_NormalIdInRange ==
    (/\ GenReturned(FALSE)
     /\ BigLeq(One, fn.start)
     /\ BigLeq(fn.start, fn.end)
     /\ ~IsMultipleOfModulus(fn.start))
        => BigLeq(fn.start, ret.value) /\ BigLeq(ret.value, fn.end)

\* C10 witness: 204 drawn from [203, 204] was decremented to 203 = start.
C10_Witness ==
    /\ GenReturned(FALSE)
    /\ fn.start = Big(0, 203)
    /\ fn.end = Big(0, 204)
    /\ ret.draw = Big(0, 204)
    /\ ret.value = fn.start

\* The policy the tier argument t selects, stated on one catalog entry
SatisfiesPolicy(t, entry) ==
    /\ entry.isEgg # None
    /\ CASE t = 6 ->
              \E fragment \in RegionalFragments :
                  \E at \in 0..(Len(entry.name) - Len(fragment)) :
                      \A j \in 1..Len(fragment) : LowerChar(entry.name[at + j]) = fragment[j]
         [] t = 7 -> ParseInt(entry.key) \in paradoxIDs
         [] OTHER -> entry.isEgg.eggType = t

\* C4: the matcher returns only an entry that has isEgg metadata and
\* satisfies the policy its tier argument selects (6: regional name fragment,
\* case-insensitively; 7: key in the paradox list; otherwise eggType = tier),
\* and returns absence exactly when no entry satisfies that policy.
C4_MatcherFollowsPolicy ==
    (pc = "getRandomSpeciesForShiny" /\ ret.status = "returned")
        => LET qualifying == { i \in DOMAIN fn.eggTypesData :
                                 SatisfiesPolicy(fn.tier, fn.eggTypesData[i]) }
           IN  /\ (ret.value = None) <=> (qualifying = {})
               /\ ret.value # None =>
                    \E i \in qualifying :
                        /\ ret.value.name = fn.eggTypesData[i].key
                        /\ ret.value.eggType = fn.eggTypesData[i].isEgg.eggType

\* C4 witness: with tier 6 and the whole Pool, the matcher returned
\* Alola_rat (capitalised name) although GALAR_pony, without isEgg, is present.
C4_Witness ==
    /\ pc = "getRandomSpeciesForShiny"
    /\ ret.status = "returned"
    /\ fn.tier = 6
    /\ fn.eggTypesData = Pool
    /\ ret.value = [name |-> <<"2", "0">>, eggType |-> 1]

\* The iteration that appended eggs[i] rolled the shiny die to something
\* other than 1 (first call: the i-th entry of the tape is that iteration's)
RolledPlain(i) == tape[i].shinyRoll # 1

C8_PlainRecordFields ==
    args.isShiny = FALSE
        => \A i \in DOMAIN eggs :
               RolledPlain(i)
                   => /\ eggs[i].isShiny = FALSE
                      /\ eggs[i].variantTier = 0
                      /\ eggs[i].sourceType = args.gachaType
                      /\ eggs[i].tier = args.tier
                      /\ "species" \notin DOMAIN eggs[i]

\* C8 witness: a call with isShiny = false, variantTier 3, gachaType 0 and
\* batch tier 5 over Pool (where the regional policy has a candidate)
\* returned two records that both rolled 64.
C8_Witness ==
    /\ pc = "done"
    /\ args.isShiny = FALSE
    /\ args.variantTier = 3
    /\ args.gachaType = 0
    /\ args.tier = 5
    /\ args.eggTypesData = Pool
    /\ Len(eggs) = 2
    /\ RolledPlain(1)
    /\ RolledPlain(2)

\* C9: with a batch tier other than 5 and 6, every returned shiny record
\* that carries a species field has its tier field equal to the batch tier.
C9_DefaultPolicyKeepsTier ==
    args.tier \notin {5, 6}
        => \A i \in DOMAIN eggs :
               (eggs[i].isShiny /\ "species" \in DOMAIN eggs[i])
                   => eggs[i].tier = args.tier

\* C9 witness: batch tier 3, a shiny record with species 150 (eggType 4)
\* and tier 3 was returned.
C9_Witness ==
    /\ pc = "done"
    /\ args.tier = 3
    /\ Len(eggs) >= 1
    /\ eggs[1].isShiny
    /\ "species" \in DOMAIN eggs[1]
    /\ eggs[1].species = 150
    /\ eggs[1].tier = 3

\* C1 (as claimed): whenever an iteration makes its record shiny and no
\* catalog entry qualifies for tier + 1, the call raises no error and the
\* record is returned without a species field and with tier = batch tier.
C1_NoMatchKeepsRecord ==
    \A n \in DOMAIN tape :
        (/\ RollsShiny(args.isShiny, tape[n].shinyRoll)
         /\ \A i \in DOMAIN args.eggTypesData :
                ~SatisfiesPolicy(args.tier + 1, args.eggTypesData[i]))
            => /\ ret.status # "raised"
               /\ n <= Len(eggs)
               /\ "species" \notin DOMAIN eggs[n]
               /\ "tier" \in DOMAIN eggs[n]
               /\ eggs[n].tier = args.tier

\* C2 (as claimed): with batch tier 4 every returned non-shiny record's id
\* lies within getIDBoundarys(0), 255 <= id <= 1073741823.
C2_ManaphyIdWithinTierZero ==
    (pc = "done" /\ args.tier = 4)
        => \A i \in DOMAIN ret.value :
               ret.value[i].isShiny = FALSE
                   => /\ BigLeq(Big(0, 255), ret.value[i].id)
                      /\ BigLeq(ret.value[i].id, Big(0, 1073741823))

SecondCallEnded == run = 2 /\ pc \in {"done", "raised"}

\* A record without its timestamp field
WithoutTimestamp(egg) == [f \in (DOMAIN egg) \ {"timestamp"} |-> egg[f]]

\* C3 (as claimed): with the same sequence of random draws, two calls with
\* identical arguments and catalog end with identical lists of records,
\* field for field, also when they run at different clock times.
C3_SeededCallsIdentical == SecondCallEnded => ret = first

\* C3 (amended): with the same sequence of random draws, two calls with
\* identical arguments and catalog end the same way (both return or both
\* raise the same error) and return lists of the same length whose records
\* agree in every field except timestamp.
C3_SeededCallsAgreeButTimestamp ==
    SecondCallEnded
        => /\ ret.status = first.status
           /\ ret.status = "raised" => ret = first
           /\ ret.status = "returned"
                => /\ Len(ret.value) = Len(first.value)
                   /\ \A i \in DOMAIN ret.value :
                          WithoutTimestamp(ret.value[i]) = WithoutTimestamp(first.value[i])

\* C3 witness: the second call returned two records, the first of them a
\* shiny one with a species, and its list differs from the first call's.
C3_Witness ==
    /\ run = 2
    /\ pc = "done"
    /\ Len(ret.value) = 2
    /\ "species" \in DOMAIN ret.value[1]
    /\ ret # first

====
